---- MODULE Spec2Model ----
(***************************************************************************)
(* A model of the open-addressing hash table of hashtable.c: the slot      *)
(* array with its bit-packed control bytes, the linear probe, the          *)
(* capacity-doubling rehash, and the public insert / lookup / delete /     *)
(* count operations.  Every operation is a pure operator on a table record *)
(* that returns the new table together with what the call returned and the *)
(* handler and allocator calls it made; the actions apply the operators to *)
(* the one table of the program.                                           *)
(***************************************************************************)
EXTENDS Integers, Sequences, FiniteSets, TLC

\* ------------------------------------------------------------------ bounds
\* Value contents a client passes to insert: 1..MaxVal.
MaxVal == 2
\* Number of filler keys the "filled" start workload inserts (capacity 16).
NFill == 10
\* Number of filler keys the "grown" start workload inserts (capacity 32).
NBig == 23
\* Number of insert/delete pairs of the "churned" start workload.
NTomb == 14

\* ------------------------------------------------------- program constants
INITIAL_CAPACITY == 16
\* MAX_LOAD_FACTOR is 0.75 = LoadNum / LoadDen; capacities are powers of two
\* >= 16, so capacity * 0.75 is an exact integer in the double arithmetic.
LoadNum == 3
LoadDen == 4
STATE_EMPTY == 0
STATE_OCCUPIED == 1
STATE_DELETED == 2
\* (size_t)-1, the "no tombstone seen" index of find_entry_index.
NoIndex == -1
\* The result of a probe loop that never returns.
Diverges == -2

\* --------------------------------------------------------------- objects
\* A pointer is NULL, an object of the client, or an object made by a copy
\* handler; c is the object's content (for a key, what equal and hash read).
NULL == [src |-> "null", c |-> 0]
ClientObj(x) == [src |-> "client", c |-> x]

\* type_handler.copy / .destroy / .equal / .hash as the table calls them.
copy(o) == [src |-> "copy", c |-> o.c]
\* The copy handlers as hash_table_insert calls them: a[3], a[4] say whether
\* the key copy and the value copy obtain their storage; a copy handler that
\* does not returns NULL (main.c, copy_user_key and copy_user_value).
key_copy(key, a) == IF a[3] THEN copy(key) ELSE NULL
value_copy(value, a) == IF a[4] THEN copy(value) ELSE NULL
\* The outcomes the re-insertions of a resize meet: their copies are taken
\* to succeed.
Rehashing(a) == <<a[1], a[2], TRUE, TRUE>>
equal(key1, key2) == key1.c = key2.c
hash(key) == key.c

\* --------------------------------------------------------- control bytes
Pow2(n) == 2 ^ n
control_size(capacity) == (capacity + 3) \div 4

get_state(table, index) ==
    LET byte_index == index \div 4
        bit_offset == (index % 4) * 2
    IN  (table.control_bytes[byte_index] \div Pow2(bit_offset)) % 4

set_state(table, index, state) ==
    LET byte_index == index \div 4
        bit_offset == (index % 4) * 2
        old        == table.control_bytes[byte_index]
        cleared    == old - ((old \div Pow2(bit_offset)) % 4) * Pow2(bit_offset)
    IN  [table EXCEPT !.control_bytes[byte_index] =
                          cleared + (state % 4) * Pow2(bit_offset)]

\* Mutant of probe: in insert mode the first Deleted slot ends the search,
\* without looking further along the chain for the key itself.
RECURSIVE probe_takes_tombstone(_, _, _, _, _, _)
probe_takes_tombstone(table, key, find_empty_for_insert, index, tombstone_index, n) ==
    IF n = table.capacity THEN Diverges
    ELSE
      LET state == get_state(table, index)
          next  == (index + 1) % table.capacity
      IN  CASE state = STATE_EMPTY -> index
            [] state = STATE_DELETED ->
                 IF find_empty_for_insert THEN index
                 ELSE probe_takes_tombstone(table, key, find_empty_for_insert,
                                            next, tombstone_index, n + 1)
            [] state = STATE_OCCUPIED ->
                 IF equal(table.entries[index].key, key) THEN index
                 ELSE probe_takes_tombstone(table, key, find_empty_for_insert,
                                            next, tombstone_index, n + 1)
            [] OTHER ->
                 probe_takes_tombstone(table, key, find_empty_for_insert,
                                       next, tombstone_index, n + 1)

RECURSIVE probe_takes_last_tombstone(_, _, _, _, _, _)
\* Variant: every Deleted slot met replaces the remembered tombstone.
probe_takes_last_tombstone(table, key, find_empty_for_insert, index, tombstone_index, n) ==
    IF n = table.capacity THEN Diverges
    ELSE
      LET state == get_state(table, index)
          next  == (index + 1) % table.capacity
      IN  CASE state = STATE_EMPTY ->
                 IF find_empty_for_insert /\ tombstone_index # NoIndex
                 THEN tombstone_index ELSE index
            [] state = STATE_DELETED ->
                 probe_takes_last_tombstone(
                     table, key, find_empty_for_insert, next,
                     IF find_empty_for_insert THEN index ELSE tombstone_index,
                     n + 1)
            [] state = STATE_OCCUPIED ->
                 IF equal(table.entries[index].key, key) THEN index
                 ELSE probe_takes_last_tombstone(
                          table, key, find_empty_for_insert, next,
                          tombstone_index, n + 1)
            [] OTHER ->
                 probe_takes_last_tombstone(
                     table, key, find_empty_for_insert, next,
                     tombstone_index, n + 1)

\* ------------------------------------------------------------------ probe
RECURSIVE probe(_, _, _, _, _, _)
\* One iteration of the for (;;) loop of find_entry_index; n counts the
\* iterations made.  After capacity iterations without a return the loop is
\* back at its start index with the same tombstone_index, so it never
\* returns.
probe(table, key, find_empty_for_insert, index, tombstone_index, n) ==
    IF n = table.capacity THEN Diverges
    ELSE
      LET state == get_state(table, index)
          next  == (index + 1) % table.capacity
      IN  CASE state = STATE_EMPTY ->
                 IF find_empty_for_insert /\ tombstone_index # NoIndex
                 THEN tombstone_index ELSE index
            [] state = STATE_DELETED ->
                 probe(table, key, find_empty_for_insert, next,
                       IF find_empty_for_insert /\ tombstone_index = NoIndex
                       THEN index ELSE tombstone_index, n + 1)
            [] state = STATE_OCCUPIED ->
                 IF equal(table.entries[index].key, key) THEN index
                 ELSE probe(table, key, find_empty_for_insert, next,
                            tombstone_index, n + 1)
            [] OTHER ->
                 probe(table, key, find_empty_for_insert, next,
                       tombstone_index, n + 1)

find_entry_index(table, key, find_empty_for_insert) ==
    probe(table, key, find_empty_for_insert,
          hash(key) % table.capacity, NoIndex, 0)

\* ---------------------------------------------------------------- results
\* What a call did: t the table afterwards, ok the boolean it returned, val
\* the pointer it returned, hang whether it never returned, calls the
\* copy/destroy handler calls in order, allocd / freed the blocks it asked
\* the allocator for and released, resized how many resizes completed.
Result(t, ok, val) ==
    [t |-> t, ok |-> ok, val |-> val, hang |-> FALSE, calls |-> <<>>,
     allocd |-> <<>>, freed |-> <<>>, resized |-> 0]
\* A handler call: fn the handler, kind whether of the key or the value
\* handler set, o its argument, res what a copy returned.
Call(fn, kind, o) ==
    [fn |-> fn, kind |-> kind, o |-> o,
     res |-> IF fn = "copy" THEN copy(o) ELSE NULL]
CopyCall(kind, o, res) == [Call("copy", kind, o) EXCEPT !.res = res]
\* A block of the allocator: by the allocator of the table, blk which block.
Block(table, blk) == [by |-> table.alloc_handler, blk |-> blk]

\* ----------------------------------------------------------------- create
\* The HashTable* that is NULL.
NoTable == [alloc_handler |-> "none", capacity |-> 0, count |-> 0,
            control_bytes |-> <<>>, entries |-> <<>>]

\* Variant: when the entries allocation fails only the table struct is freed.
create_leaks_control_bytes(custom_allocator, c) ==
    LET by == [alloc_handler |-> IF custom_allocator # "NULL"
                                 THEN custom_allocator ELSE "default"]
    IN  IF c[1] /\ c[2] /\ ~c[3] THEN
          [Result(NoTable, FALSE, NULL) EXCEPT
              !.allocd = <<Block(by, "table"), Block(by, "control_bytes")>>,
              !.freed = <<Block(by, "table")>>]
        ELSE Result(NoTable, FALSE, NULL)

\* custom_allocator is "NULL" or names the caller's allocator; c[1], c[2],
\* c[3] say whether the allocations of the table struct, of the control
\* bytes and of the entries array succeed.
hash_table_create(custom_allocator, c) ==
    LET alloc_h == IF custom_allocator # "NULL" THEN custom_allocator
                   ELSE "default"
        made == [alloc_handler |-> alloc_h,
                 capacity      |-> INITIAL_CAPACITY,
                 count         |-> 0,
                 control_bytes |->
                     [b \in 0 .. control_size(INITIAL_CAPACITY) - 1 |-> 0],
                 entries       |-> [i \in 0 .. INITIAL_CAPACITY - 1 |->
                                       [key |-> NULL, value |-> NULL]]]
    IN  IF ~c[1] THEN Result(NoTable, FALSE, NULL)
        ELSE IF ~c[2] THEN
          [Result(NoTable, FALSE, NULL) EXCEPT
              !.allocd = <<Block(made, "table")>>,
              !.freed = <<Block(made, "table")>>]
        ELSE IF ~c[3] THEN
          [Result(NoTable, FALSE, NULL) EXCEPT
              !.allocd = <<Block(made, "table"), Block(made, "control_bytes")>>,
              !.freed = <<Block(made, "control_bytes"), Block(made, "table")>>]
        ELSE
          [Result(made, TRUE, NULL) EXCEPT
              !.allocd = <<Block(made, "table"), Block(made, "control_bytes"),
                           Block(made, "entries")>>]

\* ---------------------------------------------------------- insert/resize
RECURSIVE hash_table_insert(_, _, _, _)
RECURSIVE rehash(_, _, _, _)
RECURSIVE rehash_reads_new_states(_, _, _, _)

\* Mutant of exceeds_load: Deleted slots count towards the load.
exceeds_load_counts_tombstones(table) ==
    (table.count + 1 + Cardinality({i \in 0 .. table.capacity - 1 :
                                        get_state(table, i) = STATE_DELETED}))
        * LoadDen > table.capacity * LoadNum

\* Mutant of exceeds_load: the test is made on count, not on count + 1.
exceeds_load_late(table) == table.count * LoadDen > table.capacity * LoadNum

\* The condition of line 206: count + 1 > capacity * MAX_LOAD_FACTOR.
exceeds_load(table) == (table.count + 1) * LoadDen > table.capacity * LoadNum

\* Mutant of rehash: the slot states are read from the table being filled
\* instead of from the old control bytes.
rehash_reads_new_states(old, i, r, a) ==
    IF i >= old.capacity \/ r.hang THEN r
    ELSE IF get_state(r.t, i) # STATE_OCCUPIED
    THEN rehash_reads_new_states(old, i + 1, r, a)
    ELSE
      LET ins == hash_table_insert(r.t, old.entries[i].key,
                                   old.entries[i].value, Rehashing(a))
      IN  rehash_reads_new_states(old, i + 1,
                 [r EXCEPT !.t = ins.t,
                           !.hang = ins.hang,
                           !.calls = r.calls \o ins.calls \o
                               <<Call("destroy", "key", old.entries[i].key),
                                 Call("destroy", "value", old.entries[i].value)>>,
                           !.allocd = r.allocd \o ins.allocd,
                           !.freed = r.freed \o ins.freed,
                           !.resized = r.resized + ins.resized],
                 a)

\* The loop of lines 134-144 from slot i on: r is the result so far (r.t the
\* table being filled), old the table as it was when resize was entered.
rehash(old, i, r, a) ==
    IF i >= old.capacity \/ r.hang THEN r
    ELSE IF get_state(old, i) # STATE_OCCUPIED THEN rehash(old, i + 1, r, a)
    ELSE
      LET ins == hash_table_insert(r.t, old.entries[i].key,
                                   old.entries[i].value, Rehashing(a))
      IN  rehash(old, i + 1,
                 [r EXCEPT !.t = ins.t,
                           !.hang = ins.hang,
                           !.calls = r.calls \o ins.calls \o
                               IF ins.hang THEN <<>>
                               ELSE <<Call("destroy", "key", old.entries[i].key),
                                      Call("destroy", "value", old.entries[i].value)>>,
                           !.allocd = r.allocd \o ins.allocd,
                           !.freed = r.freed \o ins.freed,
                           !.resized = r.resized + ins.resized],
                 a)

\* Variant of resize: the new control bytes keep the Deleted marks of the
\* old slots.
resize_keeps_tombstones(table, new_capacity, a) ==
    IF ~a[1] THEN Result(table, FALSE, NULL)
    ELSE IF ~a[2] THEN
      [Result(table, FALSE, NULL) EXCEPT
          !.allocd = <<Block(table, "new_control_bytes")>>,
          !.freed = <<Block(table, "new_control_bytes")>>]
    ELSE
      LET mark(i) == IF i < table.capacity /\ get_state(table, i) = STATE_DELETED
                     THEN STATE_DELETED * Pow2(2 * (i % 4)) ELSE 0
          fresh == [table EXCEPT
                       !.entries = [i \in 0 .. new_capacity - 1 |->
                                       [key |-> NULL, value |-> NULL]],
                       !.control_bytes =
                           [b \in 0 .. control_size(new_capacity) - 1 |->
                               mark(4 * b) + mark(4 * b + 1) +
                               mark(4 * b + 2) + mark(4 * b + 3)],
                       !.capacity = new_capacity,
                       !.count = 0]
          start == [Result(fresh, TRUE, NULL) EXCEPT
                       !.allocd = <<Block(table, "new_control_bytes"),
                                    Block(table, "new_entries")>>]
          done  == rehash(table, 0, start, a)
      IN  IF done.hang THEN done
          ELSE [done EXCEPT !.freed = done.freed \o
                                <<Block(table, "old_entries"),
                                  Block(table, "old_control_bytes")>>,
                            !.resized = done.resized + 1]

\* Mutant of resize: the table is switched to the new capacity and count 0
\* before the entries array is known to be allocated.
resize_commits_early(table, new_capacity, a) ==
    IF ~a[1] THEN Result(table, FALSE, NULL)
    ELSE IF ~a[2] THEN
      [Result([table EXCEPT !.capacity = new_capacity, !.count = 0], FALSE, NULL)
       EXCEPT !.allocd = <<Block(table, "new_control_bytes")>>,
              !.freed = <<Block(table, "new_control_bytes")>>]
    ELSE
      LET fresh == [table EXCEPT
                       !.entries = [i \in 0 .. new_capacity - 1 |->
                                       [key |-> NULL, value |-> NULL]],
                       !.control_bytes =
                           [b \in 0 .. control_size(new_capacity) - 1 |-> 0],
                       !.capacity = new_capacity,
                       !.count = 0]
          start == [Result(fresh, TRUE, NULL) EXCEPT
                       !.allocd = <<Block(table, "new_control_bytes"),
                                    Block(table, "new_entries")>>]
          done  == rehash(table, 0, start, a)
      IN  IF done.hang THEN done
          ELSE [done EXCEPT !.freed = done.freed \o
                                <<Block(table, "old_entries"),
                                  Block(table, "old_control_bytes")>>,
                            !.resized = done.resized + 1]

\* a[1], a[2]: whether the allocation of the new control bytes and of the
\* new entries array succeeds.
resize(table, new_capacity, a) ==
    IF ~a[1] THEN Result(table, FALSE, NULL)
    ELSE IF ~a[2] THEN
      [Result(table, FALSE, NULL) EXCEPT
          !.allocd = <<Block(table, "new_control_bytes")>>,
          !.freed = <<Block(table, "new_control_bytes")>>]
    ELSE
      LET fresh == [table EXCEPT
                       !.entries = [i \in 0 .. new_capacity - 1 |->
                                       [key |-> NULL, value |-> NULL]],
                       !.control_bytes =
                           [b \in 0 .. control_size(new_capacity) - 1 |-> 0],
                       !.capacity = new_capacity,
                       !.count = 0]
          start == [Result(fresh, TRUE, NULL) EXCEPT
                       !.allocd = <<Block(table, "new_control_bytes"),
                                    Block(table, "new_entries")>>]
          done  == rehash(table, 0, start, a)
      IN  IF done.hang THEN done
          ELSE [done EXCEPT !.freed = done.freed \o
                                <<Block(table, "old_entries"),
                                  Block(table, "old_control_bytes")>>,
                            !.resized = done.resized + 1]

\* Mutant of store: the slot takes the caller's key and value themselves.
store_takes_arguments(t, key, value, a) ==
    LET index == find_entry_index(t, key, TRUE)
    IN  IF index = Diverges THEN [Result(t, FALSE, NULL) EXCEPT !.hang = TRUE]
        ELSE IF get_state(t, index) # STATE_OCCUPIED THEN
          LET marked == set_state(t, index, STATE_OCCUPIED)
          IN  Result([marked EXCEPT !.entries[index] =
                                        [key |-> key, value |-> value],
                                    !.count = t.count + 1],
                     TRUE, NULL)
        ELSE
          [Result([t EXCEPT !.entries[index].value = value], TRUE, NULL)
           EXCEPT !.calls = <<Call("destroy", "value", t.entries[index].value)>>]

\* Mutant of store: the update of a present key counts it again.
store_counts_update(t, key, value, a) ==
    LET index == find_entry_index(t, key, TRUE)
    IN  IF index = Diverges THEN [Result(t, FALSE, NULL) EXCEPT !.hang = TRUE]
        ELSE IF get_state(t, index) # STATE_OCCUPIED THEN
          LET marked == set_state(t, index, STATE_OCCUPIED)
          IN  [Result([marked EXCEPT !.entries[index] =
                                         [key |-> key_copy(key, a), value |-> value_copy(value, a)],
                                     !.count = t.count + 1],
                      TRUE, NULL)
               EXCEPT !.calls = <<CopyCall("key", key, key_copy(key, a)),
                                  CopyCall("value", value, value_copy(value, a))>>]
        ELSE
          [Result([t EXCEPT !.entries[index].value = value_copy(value, a),
                            !.count = t.count + 1], TRUE, NULL)
           EXCEPT !.calls = <<Call("destroy", "value", t.entries[index].value),
                              CopyCall("value", value, value_copy(value, a))>>]

\* Mutant of store: the update destroys the old value and stores no new one.
store_keeps_value(t, key, value, a) ==
    LET index == find_entry_index(t, key, TRUE)
    IN  IF index = Diverges THEN [Result(t, FALSE, NULL) EXCEPT !.hang = TRUE]
        ELSE IF get_state(t, index) # STATE_OCCUPIED THEN
          LET marked == set_state(t, index, STATE_OCCUPIED)
          IN  [Result([marked EXCEPT !.entries[index] =
                                         [key |-> key_copy(key, a), value |-> value_copy(value, a)],
                                     !.count = t.count + 1],
                      TRUE, NULL)
               EXCEPT !.calls = <<CopyCall("key", key, key_copy(key, a)),
                                  CopyCall("value", value, value_copy(value, a))>>]
        ELSE
          [Result(t, TRUE, NULL)
           EXCEPT !.calls = <<Call("destroy", "value", t.entries[index].value),
                              CopyCall("value", value, value_copy(value, a))>>]

\* Mutant of store: the update replaces the stored key as well as the value.
store_recopies_key(t, key, value, a) ==
    LET index == find_entry_index(t, key, TRUE)
    IN  IF index = Diverges THEN [Result(t, FALSE, NULL) EXCEPT !.hang = TRUE]
        ELSE IF get_state(t, index) # STATE_OCCUPIED THEN
          LET marked == set_state(t, index, STATE_OCCUPIED)
          IN  [Result([marked EXCEPT !.entries[index] =
                                         [key |-> key_copy(key, a), value |-> value_copy(value, a)],
                                     !.count = t.count + 1],
                      TRUE, NULL)
               EXCEPT !.calls = <<CopyCall("key", key, key_copy(key, a)),
                                  CopyCall("value", value, value_copy(value, a))>>]
        ELSE
          [Result([t EXCEPT !.entries[index] =
                                [key |-> key_copy(key, a), value |-> value_copy(value, a)]],
                  TRUE, NULL)
           EXCEPT !.calls = <<Call("destroy", "key", t.entries[index].key),
                              Call("destroy", "value", t.entries[index].value),
                              CopyCall("key", key, key_copy(key, a)),
                              CopyCall("value", value, value_copy(value, a))>>]

\* Lines 213-231: the probe and the store, on the table t the resize left.
store(t, key, value, a) ==
    LET index == find_entry_index(t, key, TRUE)
    IN  IF index = Diverges THEN [Result(t, FALSE, NULL) EXCEPT !.hang = TRUE]
        ELSE IF get_state(t, index) # STATE_OCCUPIED THEN
          LET marked == set_state(t, index, STATE_OCCUPIED)
          IN  [Result([marked EXCEPT !.entries[index] =
                                         [key |-> key_copy(key, a), value |-> value_copy(value, a)],
                                     !.count = t.count + 1],
                      TRUE, NULL)
               EXCEPT !.calls = <<CopyCall("key", key, key_copy(key, a)),
                                  CopyCall("value", value, value_copy(value, a))>>]
        ELSE
          [Result([t EXCEPT !.entries[index].value = value_copy(value, a)], TRUE, NULL)
           EXCEPT !.calls = <<Call("destroy", "value", t.entries[index].value),
                              CopyCall("value", value, value_copy(value, a))>>]

hash_table_insert(table, key, value, a) ==
    LET grown == IF exceeds_load(table)
                 THEN resize(table, table.capacity * 2, a)
                 ELSE Result(table, TRUE, NULL)
    IN  IF grown.hang \/ ~grown.ok THEN grown
        ELSE LET st == store(grown.t, key, value, a)
             IN  [st EXCEPT !.calls = grown.calls \o st.calls,
                            !.allocd = grown.allocd,
                            !.freed = grown.freed,
                            !.resized = grown.resized]

\* ---------------------------------------------------------- lookup/delete
hash_table_lookup(table, key) ==
    IF table.count = 0 THEN Result(table, FALSE, NULL)
    ELSE
      LET index == find_entry_index(table, key, FALSE)
      IN  IF index = Diverges
          THEN [Result(table, FALSE, NULL) EXCEPT !.hang = TRUE]
          ELSE IF get_state(table, index) = STATE_OCCUPIED
          THEN Result(table, TRUE, table.entries[index].value)
          ELSE Result(table, FALSE, NULL)

\* Mutant of hash_table_delete: the slot is marked Empty, not Deleted.
delete_marks_empty(table, key) ==
    IF table.count = 0 THEN Result(table, FALSE, NULL)
    ELSE
      LET index == find_entry_index(table, key, FALSE)
      IN  IF index = Diverges
          THEN [Result(table, FALSE, NULL) EXCEPT !.hang = TRUE]
          ELSE IF get_state(table, index) # STATE_OCCUPIED
          THEN Result(table, FALSE, NULL)
          ELSE
            LET marked == set_state(table, index, STATE_EMPTY)
            IN  [Result([marked EXCEPT !.entries[index] =
                                           [key |-> NULL, value |-> NULL],
                                       !.count = table.count - 1],
                        TRUE, NULL)
                 EXCEPT !.calls = <<Call("destroy", "key", table.entries[index].key),
                                    Call("destroy", "value", table.entries[index].value)>>]

hash_table_delete(table, key) ==
    IF table.count = 0 THEN Result(table, FALSE, NULL)
    ELSE
      LET index == find_entry_index(table, key, FALSE)
      IN  IF index = Diverges
          THEN [Result(table, FALSE, NULL) EXCEPT !.hang = TRUE]
          ELSE IF get_state(table, index) # STATE_OCCUPIED
          THEN Result(table, FALSE, NULL)
          ELSE
            LET marked == set_state(table, index, STATE_DELETED)
            IN  [Result([marked EXCEPT !.entries[index] =
                                           [key |-> NULL, value |-> NULL],
                                       !.count = table.count - 1],
                        TRUE, NULL)
                 EXCEPT !.calls = <<Call("destroy", "key", table.entries[index].key),
                                    Call("destroy", "value", table.entries[index].value)>>]

hash_table_count(table) == table.count

\* Variant: the blocks are freed, the entries are not destroyed.
destroy_frees_blocks_only(table) ==
    IF table = NoTable THEN Result(NoTable, TRUE, NULL)
    ELSE [Result(NoTable, TRUE, NULL)
             EXCEPT !.freed = <<Block(table, "control_bytes"),
                                Block(table, "entries"),
                                Block(table, "table")>>]

RECURSIVE destroy_entries(_, _)
\* The destroy calls of the loop of hash_table_destroy from slot i on.
destroy_entries(table, i) ==
    IF i >= table.capacity THEN <<>>
    ELSE (IF get_state(table, i) = STATE_OCCUPIED
          THEN <<Call("destroy", "key", table.entries[i].key),
                 Call("destroy", "value", table.entries[i].value)>>
          ELSE <<>>) \o destroy_entries(table, i + 1)

hash_table_destroy(table) ==
    IF table = NoTable THEN Result(NoTable, TRUE, NULL)
    ELSE [Result(NoTable, TRUE, NULL)
             EXCEPT !.calls = destroy_entries(table, 0),
                    !.freed = <<Block(table, "control_bytes"),
                                Block(table, "entries"),
                                Block(table, "table")>>]

\* ------------------------------------------------------------ the program
VARIABLES
    table,   \* the HashTable the client created
    model,   \* ghost: key content -> value content last inserted (0: absent)
    last,    \* ghost: the last call, its arguments, its result, the table before
    heap     \* ghost: the live handler objects and allocator blocks

vars == <<table, model, last, heap>>

\* Key contents the client calls the table with.  hash % 16 sends 0, 16 and
\* 32 to slot 0; hash % 32 separates 16 from 0 and 32.
InputKeys == {0, 16, 32}
Values == 1 .. MaxVal
\* What a call of insert meets: the outcomes of the two allocations of a
\* resize, then of the key copy and of the value copy.
AllGranted == <<TRUE, TRUE, TRUE, TRUE>>
AllocOutcomes == {AllGranted, <<FALSE, TRUE, TRUE, TRUE>>, <<TRUE, FALSE, TRUE, TRUE>>}

\* Filler keys of the start workloads: 2, 3, ...
FillKey(i) == i + 1
MaxOf(x, y) == IF x >= y THEN x ELSE y
AllKeys == InputKeys \cup {FillKey(i) : i \in 1 .. MaxOf(NFill, MaxOf(NBig, NTomb))}

\* ---- ghost heap: the objects the copy handlers made and the blocks the
\* allocator handed out that have not been given back.
ObjIds == ({"key"} \X AllKeys) \cup ({"value"} \X Values)
NoHeap == [objs |-> [id \in ObjIds |-> 0], blocks |-> {}, bad |-> FALSE]

RECURSIVE handler_calls(_, _, _)
\* A copy that returns an object makes it live; a destroy of a live object
\* ends it; a destroy of NULL is free(NULL); any other destroy is bad, and
\* the accounting stops at the first bad call.
handler_calls(h, calls, i) ==
    IF i > Len(calls) \/ h.bad THEN h
    ELSE LET cl == calls[i]
             made == <<cl.kind, cl.res.c>>
             gone == <<cl.kind, cl.o.c>>
         IN  handler_calls(
                 IF cl.fn = "copy" THEN
                   (IF cl.res = NULL THEN h
                    ELSE [h EXCEPT !.objs[made] = h.objs[made] + 1])
                 ELSE IF cl.o = NULL THEN h
                 ELSE IF cl.o.src # "copy" \/ h.objs[gone] = 0
                   THEN [h EXCEPT !.bad = TRUE]
                 ELSE [h EXCEPT !.objs[gone] = h.objs[gone] - 1],
                 calls, i + 1)

\* The block a free names: the old arrays of a resize are the current ones.
Current(b) ==
    [b EXCEPT !.blk = CASE b.blk = "old_control_bytes" -> "control_bytes"
                        [] b.blk = "old_entries" -> "entries"
                        [] OTHER -> b.blk]
\* After a resize the new arrays are the current ones.
Settled(b) ==
    [b EXCEPT !.blk = CASE b.blk = "new_control_bytes" -> "control_bytes"
                        [] b.blk = "new_entries" -> "entries"
                        [] OTHER -> b.blk]

RECURSIVE allocs(_, _, _)
allocs(h, bs, i) ==
    IF i > Len(bs) \/ h.bad THEN h
    ELSE allocs(IF bs[i] \in h.blocks THEN [h EXCEPT !.bad = TRUE]
                ELSE [h EXCEPT !.blocks = h.blocks \cup {bs[i]}],
                bs, i + 1)

RECURSIVE frees(_, _, _)
frees(h, bs, i) ==
    IF i > Len(bs) \/ h.bad THEN h
    ELSE frees(IF Current(bs[i]) \in h.blocks
               THEN [h EXCEPT !.blocks = h.blocks \ {Current(bs[i])}]
               ELSE [h EXCEPT !.bad = TRUE],
               bs, i + 1)

\* The heap after a call with result r.
Account(h, r) ==
    LET g == frees(allocs(handler_calls(h, r.calls, 1), r.allocd, 1),
                   r.freed, 1)
    IN  IF \E b \in g.blocks, d \in g.blocks : b # d /\ Settled(b) = Settled(d)
        THEN g
        ELSE [g EXCEPT !.blocks = {Settled(b) : b \in g.blocks}]

\* Start workloads: call sequences a client makes on a fresh table.
Inserts(n) == [i \in 1 .. n |-> [op |-> "insert", k |-> FillKey(i), v |-> 1]]
Churn(n) ==
    [i \in 1 .. 2 * n |->
        [op |-> IF i % 2 = 1 THEN "insert" ELSE "delete",
         k |-> FillKey((i + 1) \div 2), v |-> 1]]
Workloads == {<<>>, Inserts(NFill), Inserts(NBig), Churn(NTomb)}

RECURSIVE Run(_, _, _)
\* The table and the ghost map after the calls w[i..] made on state s, every
\* allocation succeeding.
Run(w, i, s) ==
    IF i > Len(w) \/ s.t.capacity = 0 \/ s.h.bad THEN s
    ELSE LET r == IF w[i].op = "insert"
                  THEN hash_table_insert(s.t, ClientObj(w[i].k),
                                         ClientObj(w[i].v), AllGranted)
                  ELSE hash_table_delete(s.t, ClientObj(w[i].k))
         IN  Run(w, i + 1,
                 [t |-> r.t,
                  m |-> [s.m EXCEPT ![w[i].k] =
                            IF w[i].op = "insert" THEN w[i].v ELSE 0],
                  h |-> Account(s.h, r)])

\* last: op the call, key / value the contents of its arguments, a the
\* allocation outcomes it met, n what hash_table_count returned, r its result,
\* pre the table before it, was the ghost map's value for key before it.
\* The table main creates: no custom allocator, every allocation granted.
Created == hash_table_create("NULL", <<TRUE, TRUE, TRUE>>).t
CreatedHeap == Account(NoHeap, hash_table_create("NULL", <<TRUE, TRUE, TRUE>>))
NoCall == [op |-> "start", key |-> 0, value |-> 0, a |-> AllGranted,
           n |-> 0, r |-> Result(Created, TRUE, NULL),
           pre |-> Created, was |-> 0]

Init ==
    \E w \in Workloads :
        LET s == Run(w, 1, [t |-> Created, m |-> [k \in AllKeys |-> 0],
                            h |-> CreatedHeap])
        IN  /\ table = s.t
            /\ model = s.m
            /\ heap = s.h
            /\ last = [NoCall EXCEPT !.r.t = s.t, !.pre = s.t]

\* A call that never returns leaves the program inside it.
Running == ~last.r.hang /\ table # NoTable

Insert(k, v, a) ==
    /\ Running
    /\ LET r == hash_table_insert(table, ClientObj(k), ClientObj(v), a)
       IN  /\ table' = r.t
           /\ model' = IF r.ok /\ ~r.hang THEN [model EXCEPT ![k] = v] ELSE model
           /\ last' = [op |-> "insert", key |-> k, value |-> v, a |-> a,
                       n |-> 0, r |-> r, pre |-> table, was |-> model[k]]
           /\ heap' = Account(heap, r)

Lookup(k) ==
    /\ Running
    /\ LET r == hash_table_lookup(table, ClientObj(k))
       IN  /\ last' = [op |-> "lookup", key |-> k, value |-> 0,
                       a |-> AllGranted, n |-> 0, r |-> r, pre |-> table,
                       was |-> model[k]]
           /\ UNCHANGED <<table, model, heap>>

Delete(k) ==
    /\ Running
    /\ LET r == hash_table_delete(table, ClientObj(k))
       IN  /\ table' = r.t
           /\ model' = IF r.hang THEN model ELSE [model EXCEPT ![k] = 0]
           /\ last' = [op |-> "delete", key |-> k, value |-> 0,
                       a |-> AllGranted, n |-> 0, r |-> r, pre |-> table,
                       was |-> model[k]]
           /\ heap' = Account(heap, r)

Count ==
    /\ Running
    /\ last' = [op |-> "count", key |-> 0, value |-> 0, a |-> AllGranted,
                n |-> hash_table_count(table),
                r |-> Result(table, TRUE, NULL), pre |-> table, was |-> 0]
    /\ UNCHANGED <<table, model, heap>>

Next ==
    \/ \E k \in InputKeys, v \in Values :
          \E a \in (IF exceeds_load(table) THEN AllocOutcomes ELSE {AllGranted}) :
              Insert(k, v, a)
    \/ \E k \in InputKeys : Lookup(k)
    \/ \E k \in InputKeys : Delete(k)
    \/ Count

Spec == Init /\ [][Next]_vars

\* ---- the whole lifetime: create first, destroy last.
Allocators == {"NULL", "custom"}
CreateOutcomes ==
    {AllGranted, <<FALSE, TRUE, TRUE, TRUE>>, <<TRUE, FALSE, TRUE, TRUE>>,
     <<TRUE, TRUE, FALSE, TRUE>>}
NoKeys == [k \in AllKeys |-> 0]

\* Before hash_table_create, and after hash_table_destroy: no table.
Uncreated ==
    /\ table = NoTable
    /\ model = NoKeys
    /\ last = [NoCall EXCEPT !.r.t = NoTable, !.pre = NoTable]
    /\ heap = NoHeap

InitLife == Init \/ Uncreated

Create(custom_allocator, c) ==
    /\ table = NoTable
    /\ LET r == hash_table_create(custom_allocator, c)
       IN  /\ table' = r.t
           /\ model' = NoKeys
           /\ last' = [op |-> "create", key |-> 0, value |-> 0, a |-> c,
                       n |-> 0, r |-> r, pre |-> table, was |-> 0,
                       custom_allocator |-> custom_allocator]
           /\ heap' = Account(heap, r)

\* The client passes its table, or NULL.
Destroy(p) ==
    /\ ~last.r.hang
    /\ p = "table" => table # NoTable
    /\ LET r == hash_table_destroy(IF p = "NULL" THEN NoTable ELSE table)
       IN  /\ table' = IF p = "NULL" THEN table ELSE r.t
           /\ model' = IF p = "NULL" THEN model ELSE NoKeys
           /\ last' = [op |-> IF p = "NULL" THEN "destroy_null" ELSE "destroy",
                       key |-> 0, value |-> 0, a |-> AllGranted, n |-> 0,
                       r |-> r, pre |-> table, was |-> 0]
           /\ heap' = Account(heap, r)

NextLife ==
    \/ Next
    \/ \E custom_allocator \in Allocators, c \in CreateOutcomes :
          Create(custom_allocator, c)
    \/ \E p \in {"table", "NULL"} : Destroy(p)

SpecLife == InitLife /\ [][NextLife]_vars

\* ================================================================ claims
\* Helpers of the claims: what the slot array holds, read slot by slot.
Slots(t) == 0 .. t.capacity - 1
SlotsOf(t, k) ==
    {i \in Slots(t) : get_state(t, i) = STATE_OCCUPIED /\ t.entries[i].key.c = k}
StateCount(t, st) == Cardinality({i \in Slots(t) : get_state(t, i) = st})
Live == {k \in AllKeys : model[k] # 0}
Returned == last.r.hang = FALSE
Found(t, k) == hash_table_lookup(t, ClientObj(k))

\* C1: after any sequence of inserts and deletes, hash_table_count() (the
\* count field it returns) is the number of distinct keys inserted and not
\* deleted since; an insert of a key already present does not raise it.
C1_CountIsLiveKeys ==
    /\ hash_table_count(table) = Cardinality(Live)
    /\ last.op = "count" => last.n = Cardinality(Live)
    /\ (last.op = "insert" /\ Returned /\ last.was # 0)
           => hash_table_count(table) <= hash_table_count(last.pre)

C1_Witness ==
    /\ last.op = "insert" /\ Returned /\ last.r.ok /\ last.was # 0
    /\ table.count >= 2
    /\ StateCount(table, STATE_DELETED) >= 1

\* C2: every call of insert, lookup and delete returns: the probe loop of
\* find_entry_index is never entered in a state where it cannot return.
C2_EveryCallReturns == Returned

C4_DeleteThenLookup ==
    (last.op = "delete" /\ Returned /\ last.r.ok) =>
        LET l == Found(table, last.key)
            d == hash_table_delete(table, ClientObj(last.key))
        IN  /\ ~l.hang /\ l.val = NULL
            /\ ~d.hang /\ ~d.ok

\* C5: after delete(a) returned true, every other key b that was present is
\* still found, with the stored value it had.
C5_DeleteKeepsOthers ==
    (last.op = "delete" /\ Returned /\ last.r.ok) =>
        \A b \in Live :
            LET l == Found(table, b)
            IN  /\ ~l.hang
                /\ l.val # NULL
                /\ l.val.c = model[b]
                /\ l.val = Found(last.pre, b).val

\* The deleted key's slot lies on the probe path of a key that is still
\* found behind it.
C5_Witness ==
    /\ last.op = "delete" /\ Returned /\ last.r.ok
    /\ \E b \in Live :
          LET home == hash(ClientObj(b)) % table.capacity
              gone == find_entry_index(last.pre, ClientObj(last.key), FALSE)
              at   == find_entry_index(table, ClientObj(b), FALSE)
          IN  home <= gone /\ gone < at

KeyCalls(r) == {i \in 1 .. Len(r.calls) : r.calls[i].kind = "key"}
\* How often the insert destroyed the value the slot of its key held before.
OldValueDestroys(r, t, k) ==
    Cardinality({i \in 1 .. Len(r.calls) :
        /\ r.calls[i].fn = "destroy" /\ r.calls[i].kind = "value"
        /\ \E s \in SlotsOf(t, k) : r.calls[i].o = t.entries[s].value})
\* What every update keeps: count, one slot for the key, the new value found.
UpdateOutcome ==
    /\ last.r.ok
    /\ table.count = last.pre.count
    /\ Cardinality(SlotsOf(table, last.key)) = 1
    /\ StateCount(table, STATE_OCCUPIED) = StateCount(last.pre, STATE_OCCUPIED)
    /\ Found(table, last.key).val # NULL
    /\ Found(table, last.key).val.c = last.value

C8_LoadFactor ==
    /\ table.count * LoadDen <= table.capacity * LoadNum
    /\ last.pre.count * LoadDen <= last.pre.capacity * LoadNum

\* An insert that resized and left the table above 0.75 * the old capacity.
C8_Witness ==
    /\ last.op = "insert" /\ Returned /\ last.r.ok /\ last.r.resized = 1
    /\ table.count * LoadDen > last.pre.capacity * LoadNum

\* C9: no two Occupied slots hold equal keys.
C9_KeyUnique ==
    \A i, j \in Slots(table) :
        (/\ i # j
         /\ get_state(table, i) = STATE_OCCUPIED
         /\ get_state(table, j) = STATE_OCCUPIED)
            => ~equal(table.entries[i].key, table.entries[j].key)

\* A key re-inserted while a Deleted slot lay before its slot on its probe
\* path.
C9_Witness ==
    /\ last.op = "insert" /\ Returned /\ last.was # 0
    /\ LET home == hash(ClientObj(last.key)) % last.pre.capacity
       IN  \E s \in SlotsOf(last.pre, last.key) :
             \E d \in home .. s - 1 : get_state(last.pre, d) = STATE_DELETED

\* C10: an insert whose resize met a failed allocation returns false, has
\* released what it allocated, has called no handler, and leaves capacity,
\* count, slot states and stored objects as they were.
C10_ResizeFailureAtomic ==
    /\ (last.op = "insert" /\ exceeds_load(last.pre)
            /\ (~last.a[1] \/ ~last.a[2])) =>
          /\ Returned /\ ~last.r.ok
          /\ last.r.allocd = (IF last.a[1]
                               THEN <<Block(last.pre, "new_control_bytes")>>
                               ELSE <<>>)
    /\ (last.op = "insert" /\ Returned /\ ~last.r.ok) =>
          /\ table = last.pre
          /\ last.r.freed = last.r.allocd
          /\ last.r.calls = <<>>
          /\ last.r.resized = 0

\* The entries array could not be allocated, with 12 keys in 16 slots.
C10_Witness ==
    /\ last.op = "insert" /\ last.a = <<TRUE, FALSE, TRUE, TRUE>> /\ ~last.r.ok
    /\ last.r.freed = <<Block(table, "new_control_bytes")>>
    /\ table.count * LoadDen = table.capacity * LoadNum

\* ------------------------------------------- copy handlers that may fail
\* The program with copy handlers that, like those of main.c, return NULL
\* when malloc does.  The table stores what the handler returned; the next
\* probe or rehash that reaches a NULL key or value hands it to the equal or
\* copy handler, which dereferences it, so the program is followed up to the
\* first stored NULL.
CopyOutcomes ==
    {<<TRUE, TRUE, FALSE, TRUE>>, <<TRUE, TRUE, TRUE, FALSE>>,
     <<TRUE, TRUE, FALSE, FALSE>>}
HoldsNull(t) ==
    \E i \in Slots(t) :
        /\ get_state(t, i) = STATE_OCCUPIED
        /\ (t.entries[i].key = NULL \/ t.entries[i].value = NULL)

InsertStarved ==
    \E k \in InputKeys, v \in Values, a \in CopyOutcomes : Insert(k, v, a)

NextCopyFail == ~HoldsNull(table) /\ (Next \/ InsertStarved)

SpecCopyFail == Init /\ [][NextCopyFail]_vars

\* The storage requests the last insert made and was refused: an allocation
\* of its resize, the copy of the value, the copy of a key not yet present.
Refused ==
    \/ exceeds_load(last.pre) /\ (~last.a[1] \/ ~last.a[2])
    \/ ~last.a[4]
    \/ last.was = 0 /\ ~last.a[3]

\* C11: insert returns true only if every storage request made for it was
\* granted, the copies of the key and value included; when one is refused it
\* returns false and the table is as before (no Occupied slot holds a NULL
\* key or value, count is not incremented).
C11_NoSwallowedFailure ==
    (last.op = "insert" /\ Returned) =>
        /\ last.r.ok => ~Refused
        /\ Refused => (~last.r.ok /\ table = last.pre)
        /\ ~HoldsNull(table)

RECURSIVE IsDoubled(_)
\* c is INITIAL_CAPACITY doubled some number of times.
IsDoubled(c) ==
    \/ c = INITIAL_CAPACITY
    \/ c > INITIAL_CAPACITY /\ c % 2 = 0 /\ IsDoubled(c \div 2)

\* C12: capacity is 16 * 2^n and never decreases; it changes only in an
\* insert entered with count + 1 > 0.75 * capacity, and then doubles; an
\* insert entered with count + 1 <= 0.75 * capacity, and every delete and
\* lookup, leaves it alone however many slots are Deleted.
C12_GrowthOnlyByLoad ==
    /\ IsDoubled(table.capacity)
    /\ table.capacity >= last.pre.capacity
    /\ table.capacity # last.pre.capacity =>
          /\ last.op = "insert"
          /\ (last.pre.count + 1) * LoadDen > last.pre.capacity * LoadNum
          /\ table.capacity = 2 * last.pre.capacity
    /\ (last.pre.count + 1) * LoadDen <= last.pre.capacity * LoadNum =>
          table.capacity = last.pre.capacity

\* An insert of a new key took the last Empty slot of the 16: every other
\* slot is Deleted or Occupied and the table has not grown.
C12_Witness ==
    /\ last.op = "insert" /\ Returned /\ last.r.ok /\ last.was = 0
    /\ table.capacity = INITIAL_CAPACITY
    /\ StateCount(last.pre, STATE_DELETED) >= 2
    /\ StateCount(table, STATE_EMPTY) = 0

C14_TableOwnsArguments ==
    (last.op = "insert" /\ Returned /\ last.r.ok) =>
        \A s \in SlotsOf(table, last.key) :
            /\ table.entries[s].value = ClientObj(last.value)
            /\ last.was = 0 => table.entries[s].key = ClientObj(last.key)

\* C15: over the lifetime of a table every object a copy handler made is
\* either held by exactly one Occupied slot or has been destroyed exactly
\* once, the live allocator blocks are exactly the table struct and its two
\* current arrays, after hash_table_destroy nothing is live, and
\* hash_table_destroy(NULL) calls and frees nothing.
Held(t, id) ==
    Cardinality({i \in Slots(t) :
        /\ get_state(t, i) = STATE_OCCUPIED
        /\ LET o == IF id[1] = "key" THEN t.entries[i].key
                    ELSE t.entries[i].value
           IN  o # NULL /\ o.c = id[2]})
TableBlocks(t) ==
    IF t = NoTable THEN {}
    ELSE {Block(t, "table"), Block(t, "control_bytes"), Block(t, "entries")}
C15_NoLeakNoDoubleDestroy ==
    /\ ~heap.bad
    /\ \A id \in ObjIds : heap.objs[id] = Held(table, id)
    /\ heap.blocks = TableBlocks(table)
    /\ last.op = "destroy" => (table = NoTable /\ heap = NoHeap)
    /\ last.op = "destroy_null" =>
          /\ table = last.pre
          /\ last.r.calls = <<>> /\ last.r.allocd = <<>> /\ last.r.freed = <<>>

C15_Witness ==
    /\ last.op = "destroy"
    /\ last.pre.capacity > INITIAL_CAPACITY
    /\ StateCount(last.pre, STATE_DELETED) >= 1
    /\ last.pre.count >= 2
    /\ Len(last.r.calls) = 2 * last.pre.count
    /\ Len(last.r.freed) = 3

\* C16: hash_table_delete(k) returns, and returns true exactly when k is
\* present; then it destroys the key and the value of k's slot, marks that
\* one slot Deleted, lowers count by one and changes no other slot; when it
\* returns false the table is unchanged and no handler is called.
C16_DeleteOutcomes ==
    last.op = "delete" =>
        /\ Returned
        /\ last.r.ok <=> (last.was # 0)
        /\ last.r.ok =>
              \E i \in SlotsOf(last.pre, last.key) :
                  /\ last.r.calls =
                        <<Call("destroy", "key", last.pre.entries[i].key),
                          Call("destroy", "value", last.pre.entries[i].value)>>
                  /\ get_state(table, i) = STATE_DELETED
                  /\ table.entries[i] = [key |-> NULL, value |-> NULL]
                  /\ table.count = last.pre.count - 1
                  /\ table.capacity = last.pre.capacity
                  /\ \A j \in Slots(table) \ {i} :
                        /\ get_state(table, j) = get_state(last.pre, j)
                        /\ table.entries[j] = last.pre.entries[j]
        /\ ~last.r.ok => (table = last.pre /\ last.r.calls = <<>>)

\* C17: a successful hash_table_create yields capacity 16, count 0 and 16
\* Empty slots with NULL key and value; it succeeds exactly when its three
\* allocations do, and when one fails it returns NULL having freed, through
\* the selected allocator, every block it had obtained.
Selected == IF last.custom_allocator # "NULL" THEN last.custom_allocator
            ELSE "default"
BlockSet(bs) == {bs[i] : i \in 1 .. Len(bs)}
C17_Creation ==
    last.op = "create" =>
        /\ last.r.ok <=> (last.a[1] /\ last.a[2] /\ last.a[3])
        /\ last.r.ok =>
              /\ table # NoTable
              /\ table.capacity = 16 /\ table.count = 0
              /\ DOMAIN table.entries = 0 .. 15
              /\ \A i \in 0 .. 15 :
                    /\ get_state(table, i) = STATE_EMPTY
                    /\ table.entries[i] = [key |-> NULL, value |-> NULL]
              /\ table.alloc_handler = Selected
              /\ last.r.freed = <<>>
        /\ ~last.r.ok =>
              /\ table = NoTable
              /\ heap.blocks = {} /\ ~heap.bad
              /\ Len(last.r.freed) = Len(last.r.allocd)
              /\ BlockSet(last.r.freed) = BlockSet(last.r.allocd)
              /\ \A b \in BlockSet(last.r.allocd) : b.by = Selected
        /\ Len(last.r.allocd) =
              (IF ~last.a[1] THEN 0 ELSE IF ~last.a[2] THEN 1
               ELSE IF ~last.a[3] THEN 2 ELSE 3)

C17_Witness ==
    /\ last.op = "create" /\ ~last.r.ok
    /\ last.custom_allocator = "custom"
    /\ Len(last.r.freed) = 2

\* C18: in every reachable state at least one slot of the current array is
\* Empty: Occupied plus Deleted slots are fewer than capacity.
C18_EmptySlotAvailable ==
    /\ StateCount(table, STATE_EMPTY) >= 1
    /\ StateCount(table, STATE_OCCUPIED) + StateCount(table, STATE_DELETED)
          < table.capacity

\* C19: an insert that adds an absent key fills the first Deleted slot of
\* the probe sequence from hash(key) mod capacity when a Deleted slot comes
\* before the first Empty slot of that sequence, and that first Empty slot
\* otherwise; a probe in lookup mode never returns a Deleted slot.
\* The array the probe of the insert ran on: the resized one when the load
\* test fired.
Probed ==
    IF (last.pre.count + 1) * LoadDen > last.pre.capacity * LoadNum
    THEN resize(last.pre, last.pre.capacity * 2, last.a).t
    ELSE last.pre
At(t, k, j) == (hash(ClientObj(k)) + j) % t.capacity
Offsets(t, k, st) == {j \in Slots(t) : get_state(t, At(t, k, j)) = st}
Least(S) == CHOOSE j \in S : \A m \in S : j <= m
C19_TombstoneRecycling ==
    /\ (last.op = "insert" /\ Returned /\ last.r.ok /\ last.was = 0) =>
          LET empties == Offsets(Probed, last.key, STATE_EMPTY)
              before  == {j \in Offsets(Probed, last.key, STATE_DELETED) :
                             j < Least(empties)}
          IN  /\ empties # {}
              /\ SlotsOf(table, last.key) =
                    {At(Probed, last.key,
                        IF before # {} THEN Least(before) ELSE Least(empties))}
    /\ \A k \in InputKeys :
          LET i == find_entry_index(table, ClientObj(k), FALSE)
          IN  i # Diverges => get_state(table, i) # STATE_DELETED
    /\ (last.op \in {"lookup", "delete"} /\ Returned /\ last.pre.count > 0) =>
          get_state(last.pre,
                    find_entry_index(last.pre, ClientObj(last.key), FALSE))
              # STATE_DELETED

C19_Witness ==
    /\ last.op = "insert" /\ Returned /\ last.r.ok /\ last.was = 0
    /\ Cardinality({j \in Offsets(Probed, last.key, STATE_DELETED) :
                       j < Least(Offsets(Probed, last.key, STATE_EMPTY))}) >= 2

\* C20: right after a successful resize, before the insert that triggered it
\* stores its entry, the new array has no Deleted slot, as many Occupied
\* slots as the old count, and count equal to the old count; no insert of
\* the rehash starts a resize of its own.
Grown == resize(last.pre, last.pre.capacity * 2, last.a)
C20_ResizePurges ==
    (/\ last.op = "insert"
     /\ (last.pre.count + 1) * LoadDen > last.pre.capacity * LoadNum
     /\ last.a[1] /\ last.a[2]) =>
        /\ ~Grown.hang /\ Grown.ok
        /\ Grown.t.capacity = 2 * last.pre.capacity
        /\ StateCount(Grown.t, STATE_DELETED) = 0
        /\ StateCount(Grown.t, STATE_OCCUPIED) = last.pre.count
        /\ Grown.t.count = last.pre.count
        /\ Grown.resized = 1
        /\ last.r.resized = 1
        /\ StateCount(table, STATE_DELETED) = 0

C20_Witness ==
    /\ last.op = "insert" /\ Returned /\ last.r.ok
    /\ last.r.resized = 1
    /\ last.pre.capacity > INITIAL_CAPACITY
    /\ StateCount(last.pre, STATE_DELETED) >= 1
    /\ last.pre.count >= 2
====
